---------------------------- MODULE Spec2Model ----------------------------
(***************************************************************************)
(* Catalog reconciliation scripts of refoauto:                             *)
(*   scripts/assign_ids.py     - assign_ids (conflict resolver, allocator) *)
(*   scripts/sync_with_api.py  - normalize_name, build_api_name_map,       *)
(*                               sync_categories,                          *)
(*                               update_services_category_ids, main        *)
(*   models.py                 - overridden_fields / is_field_overridden   *)
(*                               SyncLog / SyncLogStatus                   *)
(*   process_data.py,                                                      *)
(*   scripts/process_data.py   - main (categories and services emitted)    *)
(*                                                                         *)
(* JSON objects are functions whose DOMAIN is the set of keys present, so  *)
(* "key in item" is  key \in DOMAIN item.  A nullable integer is None      *)
(* (<<>>) or Some(i) (<<i>>).  A string that is normalised is a tuple of   *)
(* one-character strings.  Python list indices are 0-based; the sequences  *)
(* here are 1-based.                                                       *)
(***************************************************************************)
EXTENDS Integers, Sequences, FiniteSets, TLC

(***************************************************************************)
(* Bounds of the explored inputs.                                          *)
(***************************************************************************)
MaxItems == 3
MaxId == 2
MaxStartId == 2
MaxRuns == 2
MaxLocal == 2
MaxLocalId == 2
MaxCanon == 2
MaxCanonId == 2
MaxCount == 2
MaxNameLen == 5
MaxRows == 3

VARIABLES
    items_file,     \* assign_ids: content of the JSON file it loads and saves
    orig_file,      \* assign_ids: content of the file before the first call
    prev_file,      \* assign_ids: content of the file before the last call
    start_id,       \* assign_ids: the start_id argument
    summary,        \* assign_ids: summary returned by the last call
    audit,          \* assign_ids: "Reassigned: old -> new (name)" lines of the last call
    outcome,        \* assign_ids: how the last call ended
    runs,           \* assign_ids: number of completed calls
    source_categories,  \* the categories held by the remote API
    api_categories,     \* main: the list fetched from the API in this run
    categories_json,    \* data/output/categories.json
    services_json,      \* data/output/services.json
    synced_categories,  \* main: first result of sync_categories
    id_mapping,         \* main: second result of sync_categories
    report,             \* main: third result of sync_categories
    updated_services,   \* main: result of update_services_category_ids
    pc,                 \* main: position in the script
    merge_local,        \* merger: the local record of a matched pair
    merge_canonical,    \* merger: the canonical record of the pair
    merged,             \* merger: the merged record
    decisions,          \* merger: the MergeDecision list
    merge_pc,           \* merger: "pair" before the merge, "merged" after
    alloc_todo,         \* assign_ids loop: the indices still to be given an id
    alloc_st,           \* assign_ids loop: the list, used_ids, next_id and the counters
    alloc_calls,        \* assign_ids loop: the calls of get_next_id made so far
    sync_log,           \* run ledger: the SyncLog row of the run
    run_types,          \* run ledger: the entity types the run spans
    norm_name,          \* normalize_name: the string to be normalized
    norm_once,          \* normalize_name: normalize_name(norm_name)
    norm_twice,         \* normalize_name: normalize_name(norm_once)
    norm_pc,            \* normalize_name: number of applications made
    raw_services,       \* process_data.py: the services.json it loads
    csv_rows,           \* scripts/process_data.py: the rows of raw_data.csv
    prep_categories,    \* process_data: the categories written
    prep_services,      \* process_data: the services written
    prep_pc             \* process_data: which script runs, and whether it is done

assignVars == <<items_file, orig_file, prev_file, start_id, summary, audit, outcome, runs>>

syncVars == <<source_categories, api_categories, categories_json, services_json,
              synced_categories, id_mapping, report, updated_services, pc>>

mergeVars == <<merge_local, merge_canonical, merged, decisions, merge_pc>>

allocVars == <<alloc_todo, alloc_st, alloc_calls>>

ledgerVars == <<sync_log, run_types>>

normVars == <<norm_name, norm_once, norm_twice, norm_pc>>

prepVars == <<raw_services, csv_rows, prep_categories, prep_services, prep_pc>>

vars == <<assignVars, syncVars, mergeVars, allocVars, ledgerVars, normVars, prepVars>>

(***************************************************************************)
(* Generic helpers.                                                        *)
(***************************************************************************)
None == <<>>
Some(i) == <<i>>

SeqsUpTo(S, n) == UNION {[1..k -> S] : k \in 0..n}

Range(s) == {s[i] : i \in DOMAIN s}

RECURSIVE SortedSeq(_)
SortedSeq(S) ==
    IF S = {} THEN <<>>
    ELSE LET m == CHOOSE x \in S : \A y \in S : x <= y
         IN <<m>> \o SortedSeq(S \ {m})

SetMax(S) == CHOOSE x \in S : \A y \in S : y <= x

\* d[key] = value, as a Python dict assignment (adds the key when absent)
DictSet(d, key, value) ==
    [k \in DOMAIN d \cup {key} |-> IF k = key THEN value ELSE d[k]]

(***************************************************************************)
(* scripts/assign_ids.py                                                   *)
(***************************************************************************)
\* item.get(id_field)
GetId(item) == IF "id" \in DOMAIN item THEN item.id ELSE None

\* id_field in item and item[id_field] is not None
HasId(item) == "id" \in DOMAIN item /\ item.id # None

\* items[i].get("name_i18n", {}).get("en") or items[i].get("name", "Unknown")
DisplayName(item) ==
    LET en == IF "name_i18n" \in DOMAIN item /\ "en" \in DOMAIN item.name_i18n
              THEN item.name_i18n.en ELSE ""
    IN IF en # "" THEN en
       ELSE IF "name" \in DOMAIN item THEN item.name ELSE "Unknown"

\* existing_ids: id -> list of the indices that carry it, in input order
ExistingIds(items) ==
    LET withId == {i \in DOMAIN items : HasId(items[i])}
    IN [k \in {items[i].id[1] : i \in withId} |->
            SortedSeq({i \in withId : items[i].id[1] = k})]

\* items_without_id: the indices without an id, in input order
ItemsWithoutId(items) == SortedSeq({i \in DOMAIN items : ~HasId(items[i])})

\* as Conflicts, with "len(v) > 0": every id group counts as a conflict
Conflicts_AnyGroup(items) == ExistingIds(items)

\* conflicts = {k: v for k, v in existing_ids.items() if len(v) > 1}
Conflicts(items) ==
    LET e == ExistingIds(items)
    IN [k \in {j \in DOMAIN e : Len(e[j]) > 1} |-> e[k]]

\* as IdsToReassign, with "indices[:-1]": the last occurrence is kept
IdsToReassign_KeepLast(items) ==
    LET c == Conflicts(items)
    IN UNION {Range(SubSeq(c[k], 1, Len(c[k]) - 1)) : k \in DOMAIN c}

\* as IdsToReassign, with "indices" for "indices[1:]": the whole group is reassigned
IdsToReassign_All(items) ==
    LET c == Conflicts(items)
    IN UNION {Range(c[k]) : k \in DOMAIN c}

\* ids_to_reassign: indices[1:] of every conflict group
IdsToReassign(items) ==
    LET c == Conflicts(items)
    IN UNION {Range(Tail(c[k])) : k \in DOMAIN c}

\* all_need_ids = set(items_without_id) | set(ids_to_reassign)
AllNeedIds(items) == Range(ItemsWithoutId(items)) \cup IdsToReassign(items)

\* while next_id in used_ids: next_id += 1
RECURSIVE SkipUsed(_, _)
SkipUsed(next_id, used_ids) ==
    IF next_id \in used_ids THEN SkipUsed(next_id + 1, used_ids) ELSE next_id

\* as get_next_id, taking one more than the largest used id
get_next_id_FromMax(used_ids, next_id) ==
    LET n == IF used_ids = {} THEN next_id
             ELSE IF SetMax(used_ids) + 1 > next_id THEN SetMax(used_ids) + 1 ELSE next_id
    IN [new_id |-> n, used_ids |-> used_ids \cup {n}, next_id |-> n]

\* as get_next_id, without "used_ids.add(next_id)"
get_next_id_NoAdd(used_ids, next_id) ==
    LET n == SkipUsed(next_id, used_ids)
    IN [new_id |-> n, used_ids |-> used_ids, next_id |-> n]

\* as get_next_id, without the "while next_id in used_ids" loop
get_next_id_NoSkip(used_ids, next_id) ==
    [new_id |-> next_id, used_ids |-> used_ids \cup {next_id}, next_id |-> next_id + 1]

\* get_next_id(): the closure state is passed in and returned
get_next_id(used_ids, next_id) ==
    LET n == SkipUsed(next_id, used_ids)
    IN [new_id |-> n, used_ids |-> used_ids \cup {n}, next_id |-> n]

\* as AssignOne, the two counters swapped: reassigned_count grows for a
\* record that had no id, assigned_count for one whose id is replaced
AssignOne_CountersSwapped(idx, st) ==
    LET g == get_next_id(st.used_ids, st.next_id)
        old_id == GetId(st.items[idx])
        re == old_id # None
    IN [items |-> [st.items EXCEPT ![idx] = DictSet(@, "id", Some(g.new_id))],
        used_ids |-> g.used_ids,
        next_id |-> g.next_id,
        assigned_count |-> st.assigned_count + (IF re THEN 1 ELSE 0),
        reassigned_count |-> st.reassigned_count + (IF re THEN 0 ELSE 1),
        audit |-> IF re
                  THEN Append(st.audit, [old_id |-> old_id[1], new_id |-> g.new_id,
                                         name |-> DisplayName(st.items[idx])])
                  ELSE st.audit]

\* one pass of the loop body "for idx in sorted(all_need_ids)"; st carries
\* the loop's state (the list, the closure's used_ids and next_id, the counters)
AssignOne(idx, st) ==
    LET g == get_next_id(st.used_ids, st.next_id)
        old_id == GetId(st.items[idx])
        re == old_id # None
    IN [items |-> [st.items EXCEPT ![idx] = DictSet(@, "id", Some(g.new_id))],
        used_ids |-> g.used_ids,
        next_id |-> g.next_id,
        assigned_count |-> st.assigned_count + (IF re THEN 0 ELSE 1),
        reassigned_count |-> st.reassigned_count + (IF re THEN 1 ELSE 0),
        audit |-> IF re
                  THEN Append(st.audit, [old_id |-> old_id[1], new_id |-> g.new_id,
                                         name |-> DisplayName(st.items[idx])])
                  ELSE st.audit]

\* for idx in sorted(all_need_ids): ...
RECURSIVE AssignLoop(_, _)
AssignLoop(todo, st) ==
    IF todo = <<>> THEN st
    ELSE AssignLoop(Tail(todo), AssignOne(Head(todo), st))

\* the state before the loop: used_ids = set(existing_ids.keys()), next_id = start_id
AssignStart(items, start) ==
    [items |-> items,
     used_ids |-> DOMAIN ExistingIds(items),
     next_id |-> start,
     assigned_count |-> 0,
     reassigned_count |-> 0,
     audit |-> <<>>]

\* the whole of assign_ids on the loaded list
assign_ids(items, start) ==
    LET st == AssignLoop(SortedSeq(AllNeedIds(items)), AssignStart(items, start))
        final_ids == [i \in DOMAIN st.items |-> GetId(st.items[i])]
        dup == Cardinality(Range(final_ids)) # Len(final_ids)
        none_ids == {i \in DOMAIN st.items : GetId(st.items[i]) = None}
        failed == dup \/ none_ids # {}
    IN [outcome |-> IF failed THEN "RuntimeError"
                    ELSE IF Len(items) = 0 THEN "ValueError"   \* max() of an empty list
                    ELSE "returned",
        saved |-> ~failed,
        items |-> st.items,
        audit |-> st.audit,
        summary |-> [total_items |-> Len(items),
                     had_id |-> Len(items) - Len(ItemsWithoutId(items)),
                     assigned_new |-> st.assigned_count,
                     reassigned_conflicts |-> st.reassigned_count,
                     conflicts_found |-> Cardinality(DOMAIN Conflicts(items)),
                     max_id |-> IF failed \/ Len(items) = 0 THEN 0
                                ELSE SetMax({st.items[i].id[1] : i \in DOMAIN st.items})]]

(***************************************************************************)
(* scripts/sync_with_api.py                                                *)
(***************************************************************************)
WhitespaceChars == {" ", "\t", "\n"}

\* the characters matched by \w among those used here
WordChars == {"a", "b", "c", "m", "t", "A", "B", "C", "M", "T", "0", "1", "_"}

\* str.lower() on one character
LowerChar(c) ==
    CASE c = "A" -> "a" [] c = "B" -> "b" [] c = "C" -> "c"
      [] c = "M" -> "m" [] c = "T" -> "t" [] OTHER -> c

LowerStr(s) == [i \in DOMAIN s |-> LowerChar(s[i])]

RECURSIVE LStrip(_)
LStrip(s) ==
    IF s # <<>> /\ Head(s) \in WhitespaceChars THEN LStrip(Tail(s)) ELSE s

RECURSIVE RStrip(_)
RStrip(s) ==
    IF s # <<>> /\ s[Len(s)] \in WhitespaceChars
    THEN RStrip(SubSeq(s, 1, Len(s) - 1)) ELSE s

\* str.strip()
Strip(s) == RStrip(LStrip(s))

\* re.sub(r'\s+', ' ', name)
RECURSIVE CollapseWhitespace(_)
CollapseWhitespace(s) ==
    IF s = <<>> THEN <<>>
    ELSE IF Head(s) \in WhitespaceChars
         THEN <<" ">> \o CollapseWhitespace(LStrip(Tail(s)))
         ELSE <<Head(s)>> \o CollapseWhitespace(Tail(s))

\* re.sub(r'[^\w\s]', '', name)
RemoveSpecial(s) ==
    LET keep(c) == c \in WordChars \cup WhitespaceChars
    IN SelectSeq(s, keep)

normalize_name(name) ==
    IF name = <<>> THEN <<>>
    ELSE RemoveSpecial(CollapseWhitespace(Strip(LowerStr(name))))

\* cat.get("name_i18n", {}).get("en", "")
NameEn(cat) ==
    IF "name_i18n" \in DOMAIN cat /\ "en" \in DOMAIN cat.name_i18n
    THEN cat.name_i18n.en ELSE <<>>

\* api_cat.get("is_archived", False)
IsArchived(cat) == IF "is_archived" \in DOMAIN cat THEN cat.is_archived ELSE FALSE

\* as build_api_name_map, with "if normalized and normalized not in name_map":
\* the first category of a normalized name is kept
build_api_name_map_FirstWins(api_categories_) ==
    LET norm(i) == normalize_name(NameEn(api_categories_[i]))
        keys == {norm(i) : i \in DOMAIN api_categories_} \ {<<>>}
    IN [n \in keys |->
          api_categories_[CHOOSE i \in DOMAIN api_categories_ :
                             /\ norm(i) = n
                             /\ \A j \in DOMAIN api_categories_ : norm(j) = n => i <= j]]

\* as build_api_name_map, without "if normalized:"
build_api_name_map_NoGuard(api_categories_) ==
    LET norm(i) == normalize_name(NameEn(api_categories_[i]))
        keys == {norm(i) : i \in DOMAIN api_categories_}
    IN [n \in keys |->
          api_categories_[SetMax({i \in DOMAIN api_categories_ : norm(i) = n})]]

\* build_api_name_map: normalized name -> category, a later category
\* replacing an earlier one with the same normalized name
build_api_name_map(api_categories_) ==
    LET norm(i) == normalize_name(NameEn(api_categories_[i]))
        keys == {norm(i) : i \in DOMAIN api_categories_} \ {<<>>}
    IN [n \in keys |->
          api_categories_[SetMax({i \in DOMAIN api_categories_ : norm(i) = n})]]

\* as MaxApiId, with the number of API categories in place of their largest id
MaxApiId_Count(api_categories_) == Len(api_categories_)

\* max((cat["id"] for cat in api_categories), default=0)
MaxApiId(api_categories_) ==
    IF api_categories_ = <<>> THEN 0
    ELSE SetMax({api_categories_[i].id : i \in DOMAIN api_categories_})

\* list.sort(key=lambda x: x["id"]), a stable sort
RECURSIVE InsertById(_, _)
InsertById(sorted, x) ==
    IF sorted = <<>> THEN <<x>>
    ELSE IF sorted[Len(sorted)].id <= x.id THEN Append(sorted, x)
         ELSE Append(InsertById(SubSeq(sorted, 1, Len(sorted) - 1), x),
                     sorted[Len(sorted)])

\* as SortById, with reverse=True
RECURSIVE SortById_Desc(_)
SortById_Desc(s) ==
    IF s = <<>> THEN <<>>
    ELSE LET rest == SortById_Desc(Tail(s))
             hi == SelectSeq(rest, LAMBDA x : x.id > Head(s).id)
             lo == SelectSeq(rest, LAMBDA x : x.id <= Head(s).id)
         IN hi \o <<Head(s)>> \o lo

RECURSIVE SortById(_)
SortById(s) ==
    IF s = <<>> THEN <<>>
    ELSE InsertById(SortById(SubSeq(s, 1, Len(s) - 1)), s[Len(s)])

\* as SyncOne, with a matched record keeping its local id
SyncOne_KeepOldId(local_cat, api_name_map, st) ==
    LET old_id == local_cat.id
        local_name == NameEn(local_cat)
        normalized == normalize_name(local_name)
    IN IF normalized \in DOMAIN api_name_map
       THEN LET api_cat == api_name_map[normalized]
                synced_cat ==
                    DictSet(DictSet(local_cat, "_api_match", TRUE),
                            "_api_archived", IsArchived(api_cat))
            IN [st EXCEPT
                  !.matched = Append(@, [local_name |-> local_name,
                                         api_name |-> NameEn(api_cat),
                                         old_id |-> old_id,
                                         new_id |-> old_id,
                                         is_archived |-> IsArchived(api_cat)]),
                  !.id_mapping = DictSet(@, old_id, old_id),
                  !.synced_categories = Append(@, synced_cat)]
       ELSE LET new_id == st.next_new_id
            IN [st EXCEPT
                  !.next_new_id = @ + 1,
                  !.new_categories = Append(@, [local_name |-> local_name,
                                                old_id |-> old_id,
                                                new_id |-> new_id]),
                  !.id_mapping = DictSet(@, old_id, new_id),
                  !.synced_categories =
                      Append(@, DictSet(DictSet(local_cat, "id", new_id),
                                        "_api_match", FALSE))]

\* as SyncOne, with "id_mapping[old_id] = new_id" inside the matched branch only
SyncOne_MapMatchedOnly(local_cat, api_name_map, st) ==
    LET old_id == local_cat.id
        local_name == NameEn(local_cat)
        normalized == normalize_name(local_name)
    IN IF normalized \in DOMAIN api_name_map
       THEN LET api_cat == api_name_map[normalized]
                new_id == api_cat.id
            IN [st EXCEPT
                  !.matched = Append(@, [local_name |-> local_name,
                                         api_name |-> NameEn(api_cat),
                                         old_id |-> old_id,
                                         new_id |-> new_id,
                                         is_archived |-> IsArchived(api_cat)]),
                  !.id_mapping = DictSet(@, old_id, new_id),
                  !.synced_categories =
                      Append(@, DictSet(DictSet(DictSet(local_cat, "id", new_id),
                                                "_api_match", TRUE),
                                        "_api_archived", IsArchived(api_cat)))]
       ELSE LET new_id == st.next_new_id
            IN [st EXCEPT
                  !.next_new_id = @ + 1,
                  !.new_categories = Append(@, [local_name |-> local_name,
                                                old_id |-> old_id,
                                                new_id |-> new_id]),
                  !.synced_categories =
                      Append(@, DictSet(DictSet(local_cat, "id", new_id),
                                        "_api_match", FALSE))]

\* the body of "for local_cat in local_categories"; st carries the loop's state
SyncOne(local_cat, api_name_map, st) ==
    LET old_id == local_cat.id
        local_name == NameEn(local_cat)
        normalized == normalize_name(local_name)
    IN IF normalized \in DOMAIN api_name_map
       THEN LET api_cat == api_name_map[normalized]
                new_id == api_cat.id
                synced_cat ==
                    DictSet(DictSet(DictSet(local_cat, "id", new_id),
                                    "_api_match", TRUE),
                            "_api_archived", IsArchived(api_cat))
            IN [st EXCEPT
                  !.matched = Append(@, [local_name |-> local_name,
                                         api_name |-> NameEn(api_cat),
                                         old_id |-> old_id,
                                         new_id |-> new_id,
                                         is_archived |-> IsArchived(api_cat)]),
                  !.id_mapping = DictSet(@, old_id, new_id),
                  !.synced_categories = Append(@, synced_cat)]
       ELSE LET new_id == st.next_new_id
                synced_cat ==
                    DictSet(DictSet(local_cat, "id", new_id), "_api_match", FALSE)
            IN [st EXCEPT
                  !.next_new_id = @ + 1,
                  !.new_categories = Append(@, [local_name |-> local_name,
                                                old_id |-> old_id,
                                                new_id |-> new_id]),
                  !.id_mapping = DictSet(@, old_id, new_id),
                  !.synced_categories = Append(@, synced_cat)]

RECURSIVE SyncLoop(_, _, _)
SyncLoop(todo, api_name_map, st) ==
    IF todo = <<>> THEN st
    ELSE SyncLoop(Tail(todo), api_name_map, SyncOne(Head(todo), api_name_map, st))

\* sync_categories(local_categories, api_categories)
sync_categories(local_categories, api_categories_) ==
    LET st == SyncLoop(local_categories, build_api_name_map(api_categories_),
                       [next_new_id |-> MaxApiId(api_categories_) + 1,
                        synced_categories |-> <<>>,
                        id_mapping |-> <<>>,
                        matched |-> <<>>,
                        new_categories |-> <<>>])
        sorted == SortById(st.synced_categories)
    IN [synced_categories |->
            [i \in DOMAIN sorted |-> DictSet(sorted[i], "sort_order", i)],
        id_mapping |-> st.id_mapping,
        report |-> [total_local |-> Len(local_categories),
                    total_api |-> Len(api_categories_),
                    matched |-> Len(st.matched),
                    new |-> Len(st.new_categories),
                    matched_details |-> st.matched,
                    new_details |-> st.new_categories]]

\* as update_services_category_ids, with the mapping applied again to a
\* rewritten reference
update_services_category_ids_Chained(services, id_mapping_) ==
    [i \in DOMAIN services |->
        IF "category_id" \in DOMAIN services[i]
           /\ services[i].category_id \in DOMAIN id_mapping_
        THEN LET once == id_mapping_[services[i].category_id]
             IN DictSet(services[i], "category_id",
                        IF once \in DOMAIN id_mapping_ THEN id_mapping_[once] ELSE once)
        ELSE services[i]]

\* update_services_category_ids(services, id_mapping)
update_services_category_ids(services, id_mapping_) ==
    [i \in DOMAIN services |->
        IF "category_id" \in DOMAIN services[i]
           /\ services[i].category_id \in DOMAIN id_mapping_
        THEN DictSet(services[i], "category_id", id_mapping_[services[i].category_id])
        ELSE services[i]]

\* clean_categories_for_output: drop the keys that start with "_"
clean_categories_for_output(categories) ==
    [i \in DOMAIN categories |->
        [k \in DOMAIN categories[i] \ {"_api_match", "_api_archived"} |->
            categories[i][k]]]

(***************************************************************************)
(* models.py: overridden_fields, and the override-aware merge of a matched *)
(* pair that consults it.                                                  *)
(***************************************************************************)
\* as is_field_overridden, consulting only the first entry of the list
is_field_overridden_FirstOnly(self, field) ==
    self.overridden_fields # <<>> /\ field = Head(self.overridden_fields)

\* as is_field_overridden, with the body of the is_overridden property
is_field_overridden_AnyOverride(self, field) == Len(self.overridden_fields) > 0

\* Service.is_field_overridden: field in self.overridden_fields
is_field_overridden(self, field) == field \in Range(self.overridden_fields)

\* the order in which the fields of a canonical record are visited
FieldOrder == <<"id", "name", "price_min">>

\* one field of the canonical record; st = [merged, decisions]
MergeField(local, canonical, field, st) ==
    IF is_field_overridden(local, field)
    THEN [st EXCEPT !.decisions = Append(@, [field |-> field, decision |-> "kept_local"])]
    ELSE IF field \in DOMAIN local /\ local[field] = canonical[field]
    THEN [st EXCEPT !.decisions = Append(@, [field |-> field, decision |-> "unchanged"])]
    ELSE [merged |-> DictSet(st.merged, field, canonical[field]),
          decisions |-> Append(st.decisions,
                               [field |-> field, decision |-> "adopted_canonical"])]

\* as MergeLoop, a field the canonical record lacks being dropped from the
\* merged record unless it is protected
RECURSIVE MergeLoop_MirrorCanonical(_, _, _, _)
MergeLoop_MirrorCanonical(fields, local, canonical, st) ==
    IF fields = <<>> THEN st
    ELSE MergeLoop_MirrorCanonical(Tail(fields), local, canonical,
                   IF Head(fields) \in DOMAIN canonical
                   THEN MergeField(local, canonical, Head(fields), st)
                   ELSE IF is_field_overridden(local, Head(fields)) THEN st
                   ELSE [st EXCEPT !.merged =
                            [k \in DOMAIN st.merged \ {Head(fields)} |-> st.merged[k]]])

\* the fields present in the canonical record, in order
RECURSIVE MergeLoop(_, _, _, _)
MergeLoop(fields, local, canonical, st) ==
    IF fields = <<>> THEN st
    ELSE MergeLoop(Tail(fields), local, canonical,
                   IF Head(fields) \in DOMAIN canonical
                   THEN MergeField(local, canonical, Head(fields), st)
                   ELSE st)

\* the merged record and the ordered decision list of one matched pair
merge_pair(local, canonical) ==
    MergeLoop(FieldOrder, local, canonical, [merged |-> local, decisions |-> <<>>])

(***************************************************************************)
(* Inputs and initial states.                                              *)
(***************************************************************************)
NoSummary ==
    [total_items |-> 0, had_id |-> 0, assigned_new |-> 0,
     reassigned_conflicts |-> 0, conflicts_found |-> 0, max_id |-> 0]

NoReport ==
    [total_local |-> 0, total_api |-> 0, matched |-> 0, new |-> 0,
     matched_details |-> <<>>, new_details |-> <<>>]

\* the variables of assign_ids while another script is explored
AssignIdle ==
    /\ items_file = <<>>
    /\ orig_file = <<>>
    /\ prev_file = <<>>
    /\ start_id = 1
    /\ summary = NoSummary
    /\ audit = <<>>
    /\ outcome = "none"
    /\ runs = 0

\* the variables of sync_with_api while another script is explored
SyncIdle ==
    /\ source_categories = <<>>
    /\ api_categories = <<>>
    /\ categories_json = <<>>
    /\ services_json = <<>>
    /\ synced_categories = <<>>
    /\ id_mapping = <<>>
    /\ report = NoReport
    /\ updated_services = <<>>
    /\ pc = "idle"

\* the variables of the merger while another part is explored
MergeIdle ==
    /\ merge_local = [overridden_fields |-> <<>>]
    /\ merge_canonical = [id |-> 0]
    /\ merged = [overridden_fields |-> <<>>]
    /\ decisions = <<>>
    /\ merge_pc = "idle"

\* the loop of assign_ids while it is not explored step by step
AllocIdle ==
    /\ alloc_todo = <<>>
    /\ alloc_st = AssignStart(<<>>, 1)
    /\ alloc_calls = <<>>

\* as NewSyncLog, with default=SyncLogStatus.SUCCESS.value for the status
NewSyncLog_DefaultSuccess ==
    [status |-> "success", results |-> <<>>,
     total_created |-> 0, total_updated |-> 0, total_archived |-> 0, total_errors |-> 0]

\* a SyncLog row as created: status in_progress, no results, totals 0
NewSyncLog ==
    [status |-> "in_progress", results |-> <<>>,
     total_created |-> 0, total_updated |-> 0, total_archived |-> 0, total_errors |-> 0]

\* the run ledger while another part is explored
LedgerIdle ==
    /\ sync_log = NewSyncLog
    /\ run_types = {}

\* normalize_name while it is not explored on its own
NormIdle ==
    /\ norm_name = <<>>
    /\ norm_once = <<>>
    /\ norm_twice = <<>>
    /\ norm_pc = "idle"

\* the data preparation scripts while they are not explored
PrepIdle ==
    /\ raw_services = <<>>
    /\ csv_rows = <<>>
    /\ prep_categories = <<>>
    /\ prep_services = <<>>
    /\ prep_pc = "idle"

\* shapes of the items of a services file, without the id
ItemShapes ==
    { [name_i18n |-> [en |-> "Skin Care"]],
      [name |-> "Body Care"] }

InputIds == {None} \cup {Some(i) : i \in 1..MaxId}

InputItems ==
    ItemShapes \cup {DictSet(s, "id", v) : s \in ItemShapes, v \in InputIds}

InitAssign ==
    /\ items_file \in SeqsUpTo(InputItems, MaxItems)
    /\ orig_file = items_file
    /\ prev_file = items_file
    /\ start_id \in 1..MaxStartId
    /\ summary = NoSummary
    /\ audit = <<>>
    /\ outcome = "none"
    /\ runs = 0
    /\ SyncIdle
    /\ MergeIdle
    /\ AllocIdle
    /\ LedgerIdle
    /\ NormIdle
    /\ PrepIdle

\* one call assign_ids(input_file): load, resolve, verify, save
AssignIds ==
    /\ runs < MaxRuns
    /\ LET r == assign_ids(items_file, start_id)
       IN /\ items_file' = IF r.saved THEN r.items ELSE items_file
          /\ prev_file' = items_file
          /\ summary' = r.summary
          /\ audit' = r.audit
          /\ outcome' = r.outcome
    /\ runs' = runs + 1
    /\ UNCHANGED <<start_id, orig_file, syncVars, mergeVars, allocVars, ledgerVars, normVars, prepVars>>

NextAssign == AssignIds

SpecAssign == InitAssign /\ [][NextAssign]_vars

(***************************************************************************)
(* scripts/assign_ids.py: one call, the loop taken one get_next_id() call  *)
(* at a time.                                                              *)
(***************************************************************************)
\* the file is loaded, existing_ids and all_need_ids are built, used_ids and
\* next_id are set
InitLoop ==
    /\ items_file \in SeqsUpTo(InputItems, MaxItems)
    /\ orig_file = items_file
    /\ prev_file = items_file
    /\ start_id \in 1..MaxStartId
    /\ summary = NoSummary
    /\ audit = <<>>
    /\ outcome = "none"
    /\ runs = 0
    /\ alloc_todo = SortedSeq(AllNeedIds(items_file))
    /\ alloc_st = AssignStart(items_file, start_id)
    /\ alloc_calls = <<>>
    /\ SyncIdle
    /\ MergeIdle
    /\ LedgerIdle
    /\ NormIdle
    /\ PrepIdle

\* one pass of the loop: new_id = get_next_id(); items[idx][id_field] = new_id
AssignNext ==
    /\ runs = 0
    /\ alloc_todo # <<>>
    /\ LET idx == Head(alloc_todo)
           st == AssignOne(idx, alloc_st)
       IN /\ alloc_st' = st
          /\ alloc_calls' = Append(alloc_calls,
                                   [idx |-> idx,
                                    used_before |-> alloc_st.used_ids,
                                    next_before |-> alloc_st.next_id,
                                    new_id |-> st.items[idx].id[1]])
    /\ alloc_todo' = Tail(alloc_todo)
    /\ UNCHANGED <<assignVars, syncVars, mergeVars, ledgerVars, normVars, prepVars>>

\* as VerifyAndSave, the "Save result" block moved into the loop body, above
\* the verification: the list is written as it stands after a pass
VerifyAndSave_SaveInLoop ==
    /\ runs = 0
    /\ items_file' = alloc_st.items
    /\ LET final_ids == [i \in DOMAIN alloc_st.items |-> GetId(alloc_st.items[i])]
           failed == \/ Cardinality(Range(final_ids)) # Len(final_ids)
                     \/ \E i \in DOMAIN final_ids : final_ids[i] = None
       IN outcome' = IF failed THEN "RuntimeError"
                     ELSE IF Len(items_file) = 0 THEN "ValueError"
                     ELSE "returned"
    /\ prev_file' = items_file
    /\ summary' = assign_ids(items_file, start_id).summary
    /\ audit' = alloc_st.audit
    /\ runs' = 1
    /\ UNCHANGED <<start_id, orig_file, syncVars, mergeVars, allocVars, ledgerVars,
                   normVars, prepVars>>

\* after the loop: verify, save, build the summary
VerifyAndSave ==
    /\ runs = 0
    /\ alloc_todo = <<>>
    /\ LET final_ids == [i \in DOMAIN alloc_st.items |-> GetId(alloc_st.items[i])]
           failed == \/ Cardinality(Range(final_ids)) # Len(final_ids)
                     \/ \E i \in DOMAIN final_ids : final_ids[i] = None
       IN /\ items_file' = IF failed THEN items_file ELSE alloc_st.items
          /\ outcome' = IF failed THEN "RuntimeError"
                        ELSE IF Len(items_file) = 0 THEN "ValueError"
                        ELSE "returned"
    /\ prev_file' = items_file
    /\ summary' = assign_ids(items_file, start_id).summary
    /\ audit' = alloc_st.audit
    /\ runs' = 1
    /\ UNCHANGED <<start_id, orig_file, syncVars, mergeVars, allocVars, ledgerVars, normVars, prepVars>>

NextLoop ==
    \/ AssignNext
    \/ VerifyAndSave

SpecLoop == InitLoop /\ [][NextLoop]_vars

(***************************************************************************)
(* scripts/sync_with_api.py: main                                          *)
(***************************************************************************)
\* "Massage Therapy" and "massage   therapy" in small
NameMT == <<"M", " ", "T">>
NameMt == <<"m", " ", " ", "t">>
NameB == <<"b">>
NameDash == <<"-">>

LocalShapes ==
    { [name_i18n |-> [en |-> NameMT]],
      [name_i18n |-> [en |-> NameB]],
      [name_i18n |-> [en |-> NameDash]] }

CanonShapes ==
    { [name_i18n |-> [en |-> NameMt], is_archived |-> TRUE],
      [name_i18n |-> [en |-> NameDash]] }

\* categories.json as the data preparation writes it: sort_order = id
LocalCategoryInputs ==
    {DictSet(DictSet(s, "id", i), "sort_order", i) : s \in LocalShapes, i \in 1..MaxLocalId}

CanonCategoryInputs ==
    {DictSet(s, "id", i) : s \in CanonShapes, i \in 1..MaxCanonId}

\* services.json: one service for every category id a local category can
\* have, one for an id no local category has, and one without category_id
ServiceInputs ==
    [i \in 1..(MaxLocalId + 2) |->
        IF i <= MaxLocalId + 1
        THEN [id |-> i, name |-> "svc", category_id |-> i]
        ELSE [id |-> i, name |-> "svc"]]

\* the ids of the remote source are unique
DistinctIds(cats) == \A i, j \in DOMAIN cats : i # j => cats[i].id # cats[j].id

InitSync ==
    /\ AssignIdle
    /\ MergeIdle
    /\ AllocIdle
    /\ LedgerIdle
    /\ NormIdle
    /\ PrepIdle
    /\ source_categories \in {c \in SeqsUpTo(CanonCategoryInputs, MaxCanon) : DistinctIds(c)}
    /\ categories_json \in SeqsUpTo(LocalCategoryInputs, MaxLocal)
    /\ services_json = ServiceInputs
    /\ api_categories = <<>>
    /\ synced_categories = <<>>
    /\ id_mapping = <<>>
    /\ report = NoReport
    /\ updated_services = <<>>
    /\ pc = "start"

\* if not local_categories: return
MainEmpty ==
    /\ pc = "start"
    /\ categories_json = <<>>
    /\ pc' = "returned"
    /\ UNCHANGED <<assignVars, mergeVars, allocVars, ledgerVars, normVars, prepVars,
                   source_categories, api_categories, categories_json,
                   services_json, synced_categories, id_mapping, report,
                   updated_services>>

\* step 2 of main, the request succeeds
FetchOk ==
    /\ pc = "start"
    /\ categories_json # <<>>
    /\ api_categories' = source_categories
    /\ pc' = "fetched"
    /\ UNCHANGED <<assignVars, mergeVars, allocVars, ledgerVars, normVars, prepVars,
                   source_categories, categories_json, services_json,
                   synced_categories, id_mapping, report, updated_services>>

\* step 2 of main, the request raises: "Continuing with empty API categories..."
FetchFail ==
    /\ pc = "start"
    /\ categories_json # <<>>
    /\ api_categories' = <<>>
    /\ pc' = "fetched"
    /\ UNCHANGED <<assignVars, mergeVars, allocVars, ledgerVars, normVars, prepVars,
                   source_categories, categories_json, services_json,
                   synced_categories, id_mapping, report, updated_services>>

\* old_id = local_cat["id"] raises KeyError for a record without the key
MissingId(local_categories) ==
    \E i \in DOMAIN local_categories : "id" \notin DOMAIN local_categories[i]

\* step 3 of main
SyncCategories ==
    /\ pc = "fetched"
    /\ ~MissingId(categories_json)
    /\ LET r == sync_categories(categories_json, api_categories)
       IN /\ synced_categories' = r.synced_categories
          /\ id_mapping' = r.id_mapping
          /\ report' = r.report
    /\ pc' = "synced"
    /\ UNCHANGED <<assignVars, mergeVars, allocVars, ledgerVars, normVars, prepVars,
                   source_categories, api_categories, categories_json,
                   services_json, updated_services>>

\* as UpdateServices, without "service.copy()": the loaded services are
\* changed in place
UpdateServices_InPlace ==
    /\ pc = "synced"
    /\ updated_services' = update_services_category_ids(services_json, id_mapping)
    /\ services_json' = updated_services'
    /\ pc' = "updated"
    /\ UNCHANGED <<assignVars, mergeVars, allocVars, ledgerVars, normVars, prepVars,
                   source_categories, api_categories, categories_json,
                   synced_categories, id_mapping, report>>

\* as UpdateServices, steps 3 and 4 of main swapped: the services are
\* rewritten with the mapping as it is before sync_categories has built it
UpdateServices_BeforeSync ==
    /\ pc = "fetched"
    /\ updated_services' = update_services_category_ids(services_json, id_mapping)
    /\ pc' = "updated"
    /\ UNCHANGED <<assignVars, mergeVars, allocVars, ledgerVars, normVars, prepVars,
                   source_categories, api_categories, categories_json,
                   services_json, synced_categories, id_mapping, report>>

\* step 4 of main
UpdateServices ==
    /\ pc = "synced"
    /\ updated_services' = update_services_category_ids(services_json, id_mapping)
    /\ pc' = "updated"
    /\ UNCHANGED <<assignVars, mergeVars, allocVars, ledgerVars, normVars, prepVars,
                   source_categories, api_categories, categories_json,
                   services_json, synced_categories, id_mapping, report>>

\* step 6 of main
Save ==
    /\ pc = "updated"
    /\ categories_json' = clean_categories_for_output(synced_categories)
    /\ services_json' = updated_services
    /\ pc' = "saved"
    /\ UNCHANGED <<assignVars, mergeVars, allocVars, ledgerVars, normVars, prepVars,
                   source_categories, api_categories, synced_categories,
                   id_mapping, report, updated_services>>

\* step 3 of the next run of main, whose fetch returned the same list: sync_categories
\* on the categories.json the previous run saved
SyncCategoriesAgain ==
    /\ pc = "saved"
    /\ LET r == sync_categories(categories_json, api_categories)
       IN /\ synced_categories' = r.synced_categories
          /\ id_mapping' = r.id_mapping
          /\ report' = r.report
    /\ pc' = "resynced"
    /\ UNCHANGED <<assignVars, mergeVars, allocVars, ledgerVars, normVars, prepVars,
                   source_categories, api_categories, categories_json,
                   services_json, updated_services>>

Next ==
    \/ MainEmpty
    \/ FetchOk
    \/ FetchFail
    \/ SyncCategories
    \/ UpdateServices
    \/ Save
    \/ SyncCategoriesAgain

Spec == InitSync /\ [][Next]_vars

(***************************************************************************)
(* scripts/sync_with_api.py: step 3 of main on records that lack their     *)
(* name or their id.                                                       *)
(***************************************************************************)
\* a category without name_i18n, with an empty name, with a name made of
\* punctuation only, and with a regular name
MatchLocalShapes ==
    { [sort_order |-> 1],
      [name_i18n |-> [en |-> <<>>]],
      [name_i18n |-> [en |-> NameDash]],
      [name_i18n |-> [en |-> NameMT]] }

\* each shape with an id, and without the "id" key
MatchLocalInputs ==
    MatchLocalShapes \cup {DictSet(s, "id", i) : s \in MatchLocalShapes, i \in 1..MaxLocalId}

MatchCanonShapes ==
    { [is_archived |-> FALSE],
      [name_i18n |-> [en |-> NameDash]],
      [name_i18n |-> [en |-> NameMt]] }

\* the fetched list, the j-th category carrying id j
MatchCanonInputs ==
    UNION {{[j \in 1..k |-> DictSet(f[j], "id", j)] : f \in [1..k -> MatchCanonShapes]} :
              k \in 0..MaxCanon}

\* main after step 2: a non-empty categories.json and the fetched list
InitMatch ==
    /\ AssignIdle
    /\ MergeIdle
    /\ AllocIdle
    /\ LedgerIdle
    /\ NormIdle
    /\ PrepIdle
    /\ source_categories \in MatchCanonInputs
    /\ api_categories = source_categories
    /\ categories_json \in SeqsUpTo(MatchLocalInputs, MaxLocal) \ {<<>>}
    /\ services_json = ServiceInputs
    /\ synced_categories = <<>>
    /\ id_mapping = <<>>
    /\ report = NoReport
    /\ updated_services = <<>>
    /\ pc = "fetched"

\* step 3 of main when local_cat["id"] raises: the script ends with the
\* traceback, nothing is returned and nothing is saved
SyncKeyError ==
    /\ pc = "fetched"
    /\ MissingId(categories_json)
    /\ pc' = "KeyError"
    /\ UNCHANGED <<assignVars, mergeVars, allocVars, ledgerVars, normVars, prepVars,
                   source_categories, api_categories, categories_json,
                   services_json, synced_categories, id_mapping, report, updated_services>>

NextMatch ==
    \/ SyncCategories
    \/ SyncKeyError

SpecMatch == InitMatch /\ [][NextMatch]_vars

(***************************************************************************)
(* scripts/sync_with_api.py: normalize_name on its own.                    *)
(***************************************************************************)
\* an upper-case letter, a digit, a space, a tab, a punctuation mark and
\* the underscore
NameChars == {"A", "1", " ", "\t", "-", "_"}

NameInputs == SeqsUpTo(NameChars, MaxNameLen)

InitNorm ==
    /\ AssignIdle
    /\ SyncIdle
    /\ MergeIdle
    /\ AllocIdle
    /\ LedgerIdle
    /\ PrepIdle
    /\ norm_name \in NameInputs
    /\ norm_once = <<>>
    /\ norm_twice = <<>>
    /\ norm_pc = "input"

\* normalized = normalize_name(name)
Normalize ==
    /\ norm_pc = "input"
    /\ norm_once' = normalize_name(norm_name)
    /\ norm_pc' = "once"
    /\ UNCHANGED <<assignVars, syncVars, mergeVars, allocVars, ledgerVars, prepVars,
                   norm_name, norm_twice>>

\* normalize_name applied to its own result
NormalizeAgain ==
    /\ norm_pc = "once"
    /\ norm_twice' = normalize_name(norm_once)
    /\ norm_pc' = "twice"
    /\ UNCHANGED <<assignVars, syncVars, mergeVars, allocVars, ledgerVars, prepVars,
                   norm_name, norm_once>>

NextNorm ==
    \/ Normalize
    \/ NormalizeAgain

SpecNorm == InitNorm /\ [][NextNorm]_vars

(***************************************************************************)
(* The merger on one matched pair.                                         *)
(***************************************************************************)
\* with optional keys name and price_min added to a record
WithOptionalFields(base) ==
    LET names == {base} \cup {DictSet(base, "name", n) : n \in {"A", "B"}}
    IN names \cup {DictSet(r, "price_min", v) : r \in names, v \in {100, 150}}

OverriddenLists ==
    {<<>>, <<"name">>, <<"price_min">>, <<"name", "price_min">>, <<"price_min", "name">>}

MergeLocalInputs ==
    {DictSet(r, "overridden_fields", o) : r \in WithOptionalFields([id |-> 5]),
                                         o \in OverriddenLists}

MergeCanonicalInputs == WithOptionalFields([id |-> 12])

InitMerge ==
    /\ AssignIdle
    /\ SyncIdle
    /\ AllocIdle
    /\ LedgerIdle
    /\ NormIdle
    /\ PrepIdle
    /\ merge_local \in MergeLocalInputs
    /\ merge_canonical \in MergeCanonicalInputs
    /\ merged = merge_local
    /\ decisions = <<>>
    /\ merge_pc = "pair"

Merge ==
    /\ merge_pc = "pair"
    /\ LET r == merge_pair(merge_local, merge_canonical)
       IN /\ merged' = r.merged
          /\ decisions' = r.decisions
    /\ merge_pc' = "merged"
    /\ UNCHANGED <<assignVars, syncVars, allocVars, ledgerVars, normVars, prepVars, merge_local, merge_canonical>>

NextMerge == Merge

SpecMerge == InitMerge /\ [][NextMerge]_vars

(***************************************************************************)
(* The data preparation: process_data.py (services.json in, categories and *)
(* normalized services out) and scripts/process_data.py (raw_data.csv in). *)
(* The inputs carry no practitioners, so the practitioner outputs of both  *)
(* scripts are empty lists and are left out.                               *)
(***************************************************************************)
\* category names as they occur in the inputs, in the order sorted() gives
CategoryNameOrder == << <<" ", "B">>, <<"A">>, <<"B">> >>

\* sorted(categories_set)
SortedNames(S) == SelectSeq(CategoryNameOrder, LAMBDA n : n \in S)

\* the position of a name in a sorted list of distinct names: its id
IndexOf(seq, x) == CHOOSE i \in DOMAIN seq : seq[i] = x

\* service.get("category_name"); an absent key gives None, a falsy value as ""
CategoryNameOf(service) ==
    IF "category_name" \in DOMAIN service THEN service.category_name ELSE <<>>

\* the keys of a raw service copied into the normalized one (all but
\* category_name and practitioners), a copied key replacing id or category_id
CopyOtherFields(normalized, service) ==
    LET other == DOMAIN service \ {"category_name", "practitioners"}
    IN [k \in DOMAIN normalized \cup other |->
           IF k \in other THEN service[k] ELSE normalized[k]]

\* process_data.py main: categories and services_normalized
process_data_src(services_raw) ==
    LET categories_set == {CategoryNameOf(services_raw[i]) : i \in DOMAIN services_raw} \ {<<>>}
        names == SortedNames(categories_set)
        category_id(i) ==
            IF CategoryNameOf(services_raw[i]) \in categories_set
            THEN IndexOf(names, CategoryNameOf(services_raw[i]))
            ELSE 0
    IN [categories |-> [idx \in DOMAIN names |->
                           [id |-> idx, name_i18n |-> [en |-> names[idx]], sort_order |-> idx]],
        services |-> [idx \in DOMAIN services_raw |->
                         CopyOtherFields([id |-> idx, category_id |-> category_id(idx)],
                                         services_raw[idx])]]

\* int(row.get("ID", 0)) on the ID column of a row
RowId(row) ==
    IF "ID" \notin DOMAIN row THEN 0
    ELSE CASE row.ID = "0" -> 0 [] row.ID = "1" -> 1 [] row.ID = "2" -> 2

\* row.get("Category", "").strip()
RowCategory(row) == IF "Category" \in DOMAIN row THEN Strip(row.Category) ELSE <<>>

\* one row of the loop of scripts/process_data.py main; st = [categories,
\* category_id_counter, services]
PrepRow(row, st) ==
    LET category_name == RowCategory(row)
        fresh == category_name # <<>> /\ category_name \notin DOMAIN st.categories
        categories == IF fresh
                      THEN DictSet(st.categories, category_name, st.category_id_counter)
                      ELSE st.categories
        counter == IF fresh THEN st.category_id_counter + 1 ELSE st.category_id_counter
        service == [id |-> RowId(row),
                    category_id |-> IF category_name \in DOMAIN categories
                                    THEN categories[category_name] ELSE 1,
                    name_i18n |-> [en |-> <<>>],
                    description_i18n |-> <<>>,
                    duration_minutes |-> None,
                    price_min |-> None,
                    price_max |-> None,
                    price_note_i18n |-> <<>>,
                    branches |-> <<"jumeirah", "srz">>]
    IN [categories |-> categories,
        category_id_counter |-> counter,
        services |-> IF RowId(row) = 0 THEN st.services ELSE Append(st.services, service)]

RECURSIVE PrepLoop(_, _)
PrepLoop(rows, st) ==
    IF rows = <<>> THEN st ELSE PrepLoop(Tail(rows), PrepRow(Head(rows), st))

\* scripts/process_data.py main: categories_list and services
process_data_scripts(rows) ==
    LET st == PrepLoop(rows, [categories |-> <<>>, category_id_counter |-> 1,
                              services |-> <<>>])
        by_id == [cat_id \in 1..(st.category_id_counter - 1) |->
                     CHOOSE n \in DOMAIN st.categories : st.categories[n] = cat_id]
    IN [categories |-> [cat_id \in DOMAIN by_id |->
                           [id |-> cat_id, name_i18n |-> [en |-> by_id[cat_id]],
                            sort_order |-> cat_id]],
        services |-> st.services]

\* a raw service with no category_name, an empty one, "A" or "B"
RawServiceInputs ==
    {[name |-> "svc"]} \cup
    {[name |-> "svc", category_name |-> c] : c \in {<<>>, <<"A">>, <<"B">>}}

\* a CSV row: ID 0, 1 or 2 and Category empty, "A" or " B"
CsvRowInputs ==
    {[ID |-> i, Category |-> c] : i \in {"0", "1", "2"}, c \in {<<>>, <<"A">>, <<" ", "B">>}}

\* one of the two scripts is about to run on its input file
InitPrep ==
    /\ AssignIdle
    /\ SyncIdle
    /\ MergeIdle
    /\ AllocIdle
    /\ LedgerIdle
    /\ NormIdle
    /\ prep_categories = <<>>
    /\ prep_services = <<>>
    /\ \/ /\ prep_pc = "process_data"
          /\ raw_services \in SeqsUpTo(RawServiceInputs, MaxRows)
          /\ csv_rows = <<>>
       \/ /\ prep_pc = "scripts/process_data"
          /\ raw_services = <<>>
          /\ csv_rows \in SeqsUpTo(CsvRowInputs, MaxRows)

\* process_data.py main
ProcessDataSrc ==
    /\ prep_pc = "process_data"
    /\ LET r == process_data_src(raw_services)
       IN /\ prep_categories' = r.categories
          /\ prep_services' = r.services
    /\ prep_pc' = "done"
    /\ UNCHANGED <<assignVars, syncVars, mergeVars, allocVars, ledgerVars, normVars,
                   raw_services, csv_rows>>

\* scripts/process_data.py main
ProcessDataScripts ==
    /\ prep_pc = "scripts/process_data"
    /\ LET r == process_data_scripts(csv_rows)
       IN /\ prep_categories' = r.categories
          /\ prep_services' = r.services
    /\ prep_pc' = "done"
    /\ UNCHANGED <<assignVars, syncVars, mergeVars, allocVars, ledgerVars, normVars,
                   raw_services, csv_rows>>

NextPrep ==
    \/ ProcessDataSrc
    \/ ProcessDataScripts

SpecPrep == InitPrep /\ [][NextPrep]_vars

(***************************************************************************)
(* The run ledger: models.py declares the SyncLog row and its statuses;    *)
(* recording the entity types' outcomes and closing the run follow the     *)
(* ledger's description.                                                   *)
(***************************************************************************)
\* class SyncLogStatus
SyncLogStatus == {"in_progress", "success", "partial", "failed"}

\* the keys of SyncLog.results
EntityTypes == {"categories", "practitioners", "services"}

CounterKinds == {"created", "updated", "archived"}

\* the result of one entity type: n records counted under one counter
CountedResult(kind, n) ==
    [created |-> IF kind = "created" THEN n ELSE 0,
     updated |-> IF kind = "updated" THEN n ELSE 0,
     archived |-> IF kind = "archived" THEN n ELSE 0,
     errors |-> <<>>]

\* the result of an entity type whose processing failed
ErrorResult == [created |-> 0, updated |-> 0, archived |-> 0, errors |-> <<"failed">>]

\* the entity types of a row that have errors
Errored(log) == {t \in DOMAIN log.results : log.results[t].errors # <<>>}

\* results[t] = result, and the denormalized totals
RecordResult(log, t, result) ==
    [log EXCEPT !.results = DictSet(@, t, result),
                !.total_created = @ + result.created,
                !.total_updated = @ + result.updated,
                !.total_archived = @ + result.archived,
                !.total_errors = @ + Len(result.errors)]

\* as FinalStatus, any error failing the run
FinalStatus_AnyErrorFails(log, types) ==
    IF log.total_errors > 0 THEN "failed" ELSE "success"

\* the terminal status of a run over the entity types "types"
FinalStatus(log, types) ==
    IF Errored(log) = types THEN "failed"
    ELSE IF log.total_errors = 0 THEN "success"
    ELSE "partial"

InitLedger ==
    /\ AssignIdle
    /\ SyncIdle
    /\ MergeIdle
    /\ AllocIdle
    /\ NormIdle
    /\ PrepIdle
    /\ sync_log = NewSyncLog
    /\ run_types \in SUBSET EntityTypes \ {{}}

\* an entity type of the run has been processed: its counts are recorded
EntityTypeDone ==
    /\ sync_log.status = "in_progress"
    /\ \E t \in run_types \ DOMAIN sync_log.results, kind \in CounterKinds, n \in 1..MaxCount :
          sync_log' = RecordResult(sync_log, t, CountedResult(kind, n))
    /\ UNCHANGED <<assignVars, syncVars, mergeVars, allocVars, normVars, prepVars, run_types>>

\* the processing of an entity type of the run failed: its error is recorded
EntityTypeFailed ==
    /\ sync_log.status = "in_progress"
    /\ \E t \in run_types \ DOMAIN sync_log.results :
          sync_log' = RecordResult(sync_log, t, ErrorResult)
    /\ UNCHANGED <<assignVars, syncVars, mergeVars, allocVars, normVars, prepVars, run_types>>

\* every entity type of the run has its result: the run is closed
Finalize ==
    /\ sync_log.status = "in_progress"
    /\ DOMAIN sync_log.results = run_types
    /\ sync_log' = [sync_log EXCEPT !.status = FinalStatus(sync_log, run_types)]
    /\ UNCHANGED <<assignVars, syncVars, mergeVars, allocVars, normVars, prepVars, run_types>>

NextLedger ==
    \/ EntityTypeDone
    \/ EntityTypeFailed
    \/ Finalize

SpecLedger == InitLedger /\ [][NextLedger]_vars

\* a run goes on until it is closed: every entity type of the run is
\* processed and the ledger is then finalized
SpecLedgerFair == SpecLedger /\ WF_vars(NextLedger)

\* C1: after assign_ids has processed a list whose ids may be duplicated,
\* null or absent, every record has a non-null id and no two records of the
\* output share an id.
C1_UniqueNonNullIds ==
    runs >= 1 =>
        /\ outcome # "RuntimeError"
        /\ \A i \in DOMAIN items_file : HasId(items_file[i])
        /\ \A i, j \in DOMAIN items_file :
              i # j => items_file[i].id # items_file[j].id

C1_Witness ==
    /\ runs = 1
    /\ Len(prev_file) = 3
    /\ GetId(prev_file[1]) = Some(1) /\ GetId(prev_file[2]) = Some(1)
    /\ ~HasId(prev_file[3])
    /\ items_file # prev_file

\* C2: conflict resolution is idempotent: a second assign_ids on the output
\* of the first changes no record, and finds no conflict and no record
\* without an id (it assigns and reassigns nothing).
C2_Idempotent ==
    runs = 2 =>
        /\ items_file = prev_file
        /\ audit = <<>>
        /\ summary.conflicts_found = 0
        /\ summary.assigned_new = 0
        /\ summary.reassigned_conflicts = 0
        /\ summary.had_id = summary.total_items

C2_Witness ==
    /\ runs = 2
    /\ Len(orig_file) = 3
    /\ GetId(orig_file[1]) = Some(2) /\ GetId(orig_file[2]) = Some(2)
    /\ ~HasId(orig_file[3])
    /\ prev_file # orig_file
    /\ items_file = prev_file

\* normalized name of the i-th local category, and whether a fetched
\* canonical category has the same non-empty normalized name
LocalNorm(i) == normalize_name(NameEn(categories_json[i]))

CanonNorm(j) == normalize_name(NameEn(api_categories[j]))

Hit(i) == LocalNorm(i) # <<>> /\ \E j \in DOMAIN api_categories : CanonNorm(j) = LocalNorm(i)

\* C3: in sync_categories every local record whose normalized name is
\* non-empty and equals the normalized name of a canonical record is tagged
\* matched and gets the id of a canonical record with that normalized name
\* as its final id, whatever its local id was.
C3_MatchedGetsCanonicalId ==
    pc = "synced" =>
        LET hits == SortedSeq({i \in DOMAIN categories_json : Hit(i)})
            md == report.matched_details
        IN /\ Len(md) = Len(hits)
           /\ \A k \in DOMAIN hits :
                LET loc == categories_json[hits[k]]
                IN /\ md[k].old_id = loc.id
                   /\ md[k].local_name = NameEn(loc)
                   /\ \E j \in DOMAIN api_categories :
                        /\ CanonNorm(j) = LocalNorm(hits[k])
                        /\ md[k].new_id = api_categories[j].id
                   /\ \E n \in DOMAIN synced_categories :
                        /\ synced_categories[n].id = md[k].new_id
                        /\ synced_categories[n]._api_match
                        /\ NameEn(synced_categories[n]) = NameEn(loc)

\* local id 1 "M T" against canonical id 2 "m  t" yields id 2
C3_Witness ==
    /\ pc = "synced"
    /\ categories_json = <<[id |-> 1, name_i18n |-> [en |-> NameMT], sort_order |-> 1]>>
    /\ api_categories = <<[id |-> 2, name_i18n |-> [en |-> NameMt], is_archived |-> TRUE]>>
    /\ synced_categories[1].id = 2
    /\ id_mapping[1] = 2

\* C4: for every field named in the local record's overridden_fields the
\* merged value equals the local value whatever the canonical value is, and
\* the decision recorded for that field is kept_local.
C4_ProtectedFieldsKept ==
    merge_pc = "merged" =>
        \A f \in Range(merge_local.overridden_fields) :
            /\ f \in DOMAIN merge_local => (f \in DOMAIN merged /\ merged[f] = merge_local[f])
            /\ f \notin DOMAIN merge_local => f \notin DOMAIN merged
            /\ \A d \in DOMAIN decisions :
                 decisions[d].field = f => decisions[d].decision = "kept_local"
            /\ f \in DOMAIN merge_canonical => \E d \in DOMAIN decisions : decisions[d].field = f

\* local price_min 100 protected, canonical price_min 150: stays 100
C4_Witness ==
    /\ merge_pc = "merged"
    /\ merge_local.overridden_fields = <<"name", "price_min">>
    /\ "price_min" \in DOMAIN merge_local /\ merge_local.price_min = 100
    /\ "price_min" \in DOMAIN merge_canonical /\ merge_canonical.price_min = 150
    /\ merged.price_min = 100
    /\ [field |-> "price_min", decision |-> "kept_local"] \in Range(decisions)

\* C5: update_services_category_ids replaces the category_id of every
\* service whose category_id is a key of the id mapping by the mapped value
\* and leaves every other service as it was; so afterwards every category_id
\* is a value of the mapping or was not a key of it.
C5_ReferencesRewritten ==
    pc = "updated" =>
        /\ Len(updated_services) = Len(services_json)
        /\ \A i \in DOMAIN services_json :
             LET old == services_json[i]
                 new == updated_services[i]
             IN /\ IF "category_id" \in DOMAIN old /\ old.category_id \in DOMAIN id_mapping
                   THEN /\ "category_id" \in DOMAIN new
                        /\ new.category_id = id_mapping[old.category_id]
                   ELSE new = old
                /\ "category_id" \in DOMAIN new =>
                     \/ new.category_id \in Range(id_mapping)
                     \/ old.category_id \notin DOMAIN id_mapping

\* the mapping is {1 -> 2, 2 -> 3} and the service's reference 1 becomes 2
C5_Witness ==
    /\ pc = "updated"
    /\ DOMAIN id_mapping = {1, 2}
    /\ id_mapping[1] = 2 /\ id_mapping[2] = 3
    /\ services_json[1].category_id = 1
    /\ updated_services[1].category_id = 2
    /\ updated_services[2].category_id = 3
    /\ updated_services[3] = services_json[3]

\* C6: when the local categories have pairwise distinct ids, after
\* sync_categories and update_services_category_ids every service that
\* referenced a local category by its old id references that category by
\* its final id.
C6_ReferencesConsistent ==
    (pc = "updated" /\ DistinctIds(categories_json)) =>
        \A i \in DOMAIN services_json, k \in DOMAIN categories_json :
            ("category_id" \in DOMAIN services_json[i]
                /\ services_json[i].category_id = categories_json[k].id) =>
              LET ref == updated_services[i].category_id
                  loc == categories_json[k]
              IN /\ \E e \in Range(report.matched_details) \cup Range(report.new_details) :
                      e.old_id = loc.id /\ e.local_name = NameEn(loc) /\ e.new_id = ref
                 /\ \E n \in DOMAIN synced_categories :
                      /\ synced_categories[n].id = ref
                      /\ NameEn(synced_categories[n]) = NameEn(loc)

C6_Witness ==
    /\ pc = "updated"
    /\ Len(categories_json) = 2
    /\ DistinctIds(categories_json)
    /\ report.matched = 1 /\ report.new = 1
    /\ \A i \in 1..2 :
          /\ services_json[i].category_id \in DOMAIN id_mapping
          /\ updated_services[i].category_id # services_json[i].category_id

\* C7: for a local collection with pairwise distinct ids, the collection
\* returned by sync_categories has pairwise distinct final ids and the id
\* mapping is one-to-one.
C7_FinalIdsDistinct ==
    (pc = "synced" /\ DistinctIds(categories_json)) =>
        /\ DistinctIds(synced_categories)
        /\ \A a, b \in DOMAIN id_mapping : a # b => id_mapping[a] # id_mapping[b]

\* C8: every id sync_categories gives to a new record is greater than the
\* id of every canonical record supplied to it, the first one being the
\* maximum plus one, so it equals no supplied canonical id and no matched
\* record's id.
C8_NewIdsAboveCanonicalMax ==
    pc = "synced" =>
        LET nd == report.new_details
            md == report.matched_details
        IN /\ \A k \in DOMAIN nd :
                /\ \A j \in DOMAIN api_categories : nd[k].new_id > api_categories[j].id
                /\ \A m \in DOMAIN md : nd[k].new_id # md[m].new_id
           /\ (nd # <<>> /\ api_categories # <<>>) =>
                \E j \in DOMAIN api_categories : nd[1].new_id = api_categories[j].id + 1

\* canonical ids 2 and 1, one matched and one new record: the new id is 3
C8_Witness ==
    /\ pc = "synced"
    /\ Len(api_categories) = 2
    /\ api_categories[1].id = 2 /\ api_categories[2].id = 1
    /\ report.matched = 1 /\ report.new = 1
    /\ report.new_details[1].new_id = 3

\* C9: a newly minted id never equals the id of a canonical record of the
\* source, also when that record is missing from the list fetched in this
\* run.
C9_NewIdsAvoidSource ==
    pc = "synced" =>
        \A k \in DOMAIN report.new_details, j \in DOMAIN source_categories :
            report.new_details[k].new_id # source_categories[j].id

\* C10: sync_categories run again on its own output with the same canonical
\* list yields the identity mapping: no record's id changes.
C10_StableOnRerun ==
    pc = "resynced" =>
        /\ \A k \in DOMAIN id_mapping : id_mapping[k] = k
        /\ Len(synced_categories) = Len(categories_json)
        /\ \A i \in DOMAIN categories_json : synced_categories[i].id = categories_json[i].id

C10_Witness ==
    /\ pc = "resynced"
    /\ api_categories # <<>>
    /\ report.new = 2
    /\ DOMAIN id_mapping = {MaxApiId(api_categories) + 1, MaxApiId(api_categories) + 2}

\* C11: assign_ids preserves existing valid ids: a record whose non-null id
\* is carried by no earlier record of the input keeps exactly that id, and
\* on every record no key other than id is added, removed or changed.
C11_ValidIdsPreserved ==
    runs >= 1 =>
        /\ Len(items_file) = Len(prev_file)
        /\ \A i \in DOMAIN prev_file :
              /\ (/\ HasId(prev_file[i])
                  /\ \A j \in 1..(i - 1) : GetId(prev_file[j]) # GetId(prev_file[i]))
                 => GetId(items_file[i]) = GetId(prev_file[i])
              /\ DOMAIN items_file[i] \ {"id"} = DOMAIN prev_file[i] \ {"id"}
              /\ \A k \in DOMAIN prev_file[i] \ {"id"} : items_file[i][k] = prev_file[i][k]

\* ids 2, 2 and none: the first record keeps 2 while the other two are renumbered
C11_Witness ==
    /\ runs = 1
    /\ Len(prev_file) = 3
    /\ GetId(prev_file[1]) = Some(2)
    /\ GetId(prev_file[2]) = Some(2)
    /\ ~HasId(prev_file[3])
    /\ GetId(items_file[1]) = Some(2)
    /\ GetId(items_file[2]) # Some(2)
    /\ HasId(items_file[3])

\* records of a list whose normalized name is empty
EmptyNamed(cats) == {k \in DOMAIN cats : normalize_name(NameEn(cats[k])) = <<>>}

\* C12: a local record whose normalized name is empty (no name, an empty
\* name or a name of punctuation only) is never matched, also when a
\* canonical record has an empty normalized name too: it is routed to new
\* and its id is a newly allocated one, above every canonical id.
C12_EmptyNameNeverMatched ==
    pc = "synced" =>
        /\ Cardinality(EmptyNamed(synced_categories)) = Cardinality(EmptyNamed(categories_json))
        /\ \A k \in EmptyNamed(synced_categories) :
              /\ synced_categories[k]._api_match = FALSE
              /\ \A j \in DOMAIN api_categories : synced_categories[k].id > api_categories[j].id
              /\ \E n \in DOMAIN report.new_details :
                    report.new_details[n].new_id = synced_categories[k].id
        /\ \A m \in DOMAIN report.matched_details :
              normalize_name(report.matched_details[m].local_name) # <<>>

\* a nameless and a punctuation-named local record, canonical records with
\* a punctuation-only name and with no name: both local records are new
C12_Witness ==
    /\ pc = "synced"
    /\ Len(categories_json) = 2
    /\ "name_i18n" \notin DOMAIN categories_json[1]
    /\ NameEn(categories_json[2]) = NameDash
    /\ Len(api_categories) = 2
    /\ NameEn(api_categories[1]) = NameDash
    /\ "name_i18n" \notin DOMAIN api_categories[2]
    /\ report.new = 2 /\ report.matched = 0
    /\ \A k \in 1..2 : synced_categories[k].id = 2 + k

\* the decisions recorded for a field
DecisionsOf(f) == {d \in DOMAIN decisions : decisions[d].field = f}

\* C14: for a matched pair and every field of the canonical record that is
\* not in the local record's overridden_fields, the merged value is the
\* canonical value, the decision being adopted_canonical when the local
\* value differs (or is missing) and unchanged when it is identical; every
\* canonical field has exactly one decision and no other field has one.
C14_UnprotectedAdoptCanonical ==
    merge_pc = "merged" =>
        /\ \A f \in DOMAIN merge_canonical : Cardinality(DecisionsOf(f)) = 1
        /\ \A d \in DOMAIN decisions : decisions[d].field \in DOMAIN merge_canonical
        /\ \A f \in DOMAIN merge_canonical \ Range(merge_local.overridden_fields) :
              /\ f \in DOMAIN merged
              /\ merged[f] = merge_canonical[f]
              /\ \A d \in DecisionsOf(f) :
                    decisions[d].decision =
                        IF f \in DOMAIN merge_local /\ merge_local[f] = merge_canonical[f]
                        THEN "unchanged" ELSE "adopted_canonical"

\* price_min protected, the ids differ and the names agree: id adopted,
\* name unchanged
C14_Witness ==
    /\ merge_pc = "merged"
    /\ merge_local.overridden_fields = <<"price_min">>
    /\ DOMAIN merge_canonical = {"id", "name", "price_min"}
    /\ "name" \in DOMAIN merge_local /\ merge_local.name = merge_canonical.name
    /\ merge_local.id # merge_canonical.id
    /\ merged.id = merge_canonical.id
    /\ decisions = << [field |-> "id", decision |-> "adopted_canonical"],
                      [field |-> "name", decision |-> "unchanged"],
                      [field |-> "price_min", decision |-> "kept_local"] >>

\* C15: merging a matched pair removes no field of the local record,
\* leaves the value of every field the canonical record lacks as it was
\* (protected or not), and leaves overridden_fields exactly as it was.
C15_MergeFrame ==
    merge_pc = "merged" =>
        /\ DOMAIN merge_local \subseteq DOMAIN merged
        /\ \A f \in DOMAIN merge_local \ DOMAIN merge_canonical : merged[f] = merge_local[f]
        /\ merged.overridden_fields = merge_local.overridden_fields

\* the local record has an unprotected price_min and a protected name, the
\* canonical record has neither: both survive the merge, the id is adopted
C15_Witness ==
    /\ merge_pc = "merged"
    /\ DOMAIN merge_canonical = {"id"}
    /\ merge_local.overridden_fields = <<"name">>
    /\ {"name", "price_min"} \subseteq DOMAIN merge_local
    /\ merged.price_min = merge_local.price_min
    /\ merged.name = merge_local.name
    /\ merged.id = merge_canonical.id /\ merged.id # merge_local.id

\* the sum of a counter over the recorded results
RECURSIVE SumResults(_, _)
SumResults(types, counter) ==
    IF types = {} THEN 0
    ELSE LET t == CHOOSE x \in types : TRUE
         IN sync_log.results[t][counter] + SumResults(types \ {t}, counter)

\* C16: a finalized run is failed if every entity type of the run errored,
\* success if no entity type has an error, and partial otherwise; every
\* entity type of the run has been processed whatever the others did, an
\* errored type adding to no counter and the others being counted.
C16_FinalStatusRule ==
    sync_log.status # "in_progress" =>
        LET errored == {t \in DOMAIN sync_log.results : sync_log.results[t].errors # <<>>}
        IN /\ DOMAIN sync_log.results = run_types
           /\ sync_log.status = IF errored = run_types THEN "failed"
                                ELSE IF errored = {} THEN "success"
                                ELSE "partial"
           /\ \A t \in errored : \A c \in CounterKinds : sync_log.results[t][c] = 0
           /\ \A t \in run_types \ errored :
                 \E c \in CounterKinds : sync_log.results[t][c] > 0
           /\ sync_log.total_created = SumResults(run_types, "created")
           /\ sync_log.total_updated = SumResults(run_types, "updated")
           /\ sync_log.total_archived = SumResults(run_types, "archived")
           /\ sync_log.total_errors = Cardinality(errored)

\* three entity types, categories failed, the other two counted: partial
C16_Witness ==
    /\ sync_log.status = "partial"
    /\ run_types = EntityTypes
    /\ sync_log.results["categories"].errors # <<>>
    /\ sync_log.results["services"].updated = 2
    /\ sync_log.results["practitioners"].created = 1
    /\ sync_log.total_errors = 1

\* the local records that have both their id and their name
WellFormed(cats) == {i \in DOMAIN cats : "id" \in DOMAIN cats[i] /\ "name_i18n" \in DOMAIN cats[i]}

\* C17: a local record that lacks its name or its id does not abort the
\* reconciliation of its collection: step 3 completes, the record is left
\* out of the result, and every other record of the collection is
\* reconciled (matched or new).
C17_MalformedSkipped ==
    pc \in {"synced", "KeyError"} =>
        /\ pc = "synced"
        /\ Len(synced_categories) = Cardinality(WellFormed(categories_json))
        /\ report.matched + report.new = Cardinality(WellFormed(categories_json))

\* the non-null ids present in a list
IdsOf(items) == {GetId(items[i]) : i \in {k \in DOMAIN items : HasId(items[k])}}

\* C18: in assign_ids, within each group of records sharing a non-null id
\* the earliest record keeps the id and every other record of the group
\* gets a newly allocated id (one that no record carried before, not below
\* start_id); every record with a null or absent id gets such an id too.
C18_FirstKeptRestRenumbered ==
    runs >= 1 =>
        \A i \in DOMAIN prev_file :
            LET first == /\ HasId(prev_file[i])
                         /\ \A j \in 1..(i - 1) : GetId(prev_file[j]) # GetId(prev_file[i])
            IN IF first
               THEN GetId(items_file[i]) = GetId(prev_file[i])
               ELSE /\ HasId(items_file[i])
                    /\ GetId(items_file[i]) \notin IdsOf(prev_file)
                    /\ items_file[i].id[1] >= start_id

\* ids 1, 1, 1: the first record keeps 1, the second and third are renumbered
C18_Witness ==
    /\ runs = 1
    /\ Len(prev_file) = 3
    /\ \A i \in 1..3 : GetId(prev_file[i]) = Some(1)
    /\ GetId(items_file[1]) = Some(1)
    /\ GetId(items_file[2]) = Some(2)
    /\ GetId(items_file[3]) = Some(3)
    /\ summary.reassigned_conflicts = 2

\* used_ids right after the k-th call of get_next_id
UsedAfter(k) ==
    IF k < Len(alloc_calls) THEN alloc_calls[k + 1].used_before ELSE alloc_st.used_ids

\* C19: used_ids starts as the set of all ids present in the list, the
\* conflicting ones included; each call of get_next_id returns the smallest
\* integer that is at least the starting candidate (start_id, and next_id
\* as it stands) and not in used_ids at the time of the call, and adds it
\* to used_ids; so a new id equals no id of the loaded list.
C19_SmallestFreeId ==
    /\ alloc_calls # <<>> =>
          alloc_calls[1].used_before = {v[1] : v \in IdsOf(orig_file)}
    /\ \A k \in DOMAIN alloc_calls :
          LET c == alloc_calls[k]
          IN /\ c.new_id >= start_id
             /\ c.new_id >= c.next_before
             /\ c.new_id \notin c.used_before
             /\ \A n \in start_id..(c.new_id - 1) : n \in c.used_before
             /\ UsedAfter(k) = c.used_before \cup {c.new_id}
             /\ Some(c.new_id) \notin IdsOf(orig_file)

\* ids 2, 2 and none with start_id 1: the calls return 1 and then 3
C19_Witness ==
    /\ Len(orig_file) = 3
    /\ GetId(orig_file[1]) = Some(2) /\ GetId(orig_file[2]) = Some(2)
    /\ ~HasId(orig_file[3])
    /\ start_id = 1
    /\ Len(alloc_calls) = 2
    /\ alloc_calls[1].new_id = 1 /\ alloc_calls[1].used_before = {2}
    /\ alloc_calls[2].new_id = 3 /\ alloc_calls[2].used_before = {1, 2}
    /\ alloc_st.used_ids = {1, 2, 3}

\* C20: within one call of assign_ids the ids returned by successive calls
\* of get_next_id strictly increase (none is repeated, none is lower than
\* an earlier one), the calls go through the records in input order, and
\* in the saved list the records that were given new ids carry them in
\* input order.
C20_IssuedIdsIncrease ==
    /\ \A k, l \in DOMAIN alloc_calls :
          k < l => /\ alloc_calls[k].new_id < alloc_calls[l].new_id
                   /\ alloc_calls[k].idx < alloc_calls[l].idx
    /\ runs = 1 =>
          /\ {alloc_calls[k].idx : k \in DOMAIN alloc_calls} = AllNeedIds(orig_file)
          /\ \A k \in DOMAIN alloc_calls :
                GetId(items_file[alloc_calls[k].idx]) = Some(alloc_calls[k].new_id)
          /\ \A i, j \in AllNeedIds(orig_file) :
                i < j => items_file[i].id[1] < items_file[j].id[1]

\* ids none, 2, none, start_id 1: the new ids are 1 and 3 although 2 < 3
\* lies between them; the saved list carries 1, 2, 3
C20_Witness ==
    /\ runs = 1
    /\ Len(orig_file) = 3
    /\ ~HasId(orig_file[1]) /\ GetId(orig_file[2]) = Some(2) /\ ~HasId(orig_file[3])
    /\ start_id = 1
    /\ Len(alloc_calls) = 2
    /\ alloc_calls[1].new_id = 1 /\ alloc_calls[2].new_id = 3
    /\ \A i \in 1..3 : GetId(items_file[i]) = Some(i)

\* the position of the last fetched category whose normalized name is that
\* of local record i
LastCanon(i) == SetMax({j \in DOMAIN api_categories : CanonNorm(j) = LocalNorm(i)})

\* C21: when several canonical records normalize to the same non-empty
\* name, a local record with that normalized name is matched to the one
\* that comes last in the fetched list and gets that record's id.
C21_LastCanonicalWins ==
    pc = "synced" =>
        LET hits == SortedSeq({i \in DOMAIN categories_json : Hit(i)})
        IN \A k \in DOMAIN hits :
              /\ k \in DOMAIN report.matched_details
              /\ report.matched_details[k].new_id = api_categories[LastCanon(hits[k])].id

\* canonical ids 2 then 1, both "m  t": local "M T" gets id 1, the last one
C21_Witness ==
    /\ pc = "synced"
    /\ Len(api_categories) = 2
    /\ CanonNorm(1) = CanonNorm(2) /\ CanonNorm(1) # <<>>
    /\ api_categories[1].id = 2 /\ api_categories[2].id = 1
    /\ Len(categories_json) = 1
    /\ LocalNorm(1) = CanonNorm(1)
    /\ categories_json[1].id = 2
    /\ report.matched_details[1].new_id = 1
    /\ synced_categories[1].id = 1

\* C22: within a run the services are rewritten only after sync_categories
\* has returned the id mapping, which then has an entry for every local
\* category, and the files are saved only after every service has been
\* rewritten with that mapping; no step rewrites a service with a mapping
\* that is still being built.
C22_RewriteAfterMappingBeforeSave ==
    [][ /\ (updated_services' # updated_services) =>
              /\ pc = "synced"
              /\ Len(synced_categories) = Len(categories_json)
              /\ \A i \in DOMAIN categories_json : categories_json[i].id \in DOMAIN id_mapping
              /\ id_mapping' = id_mapping
              /\ Len(updated_services') = Len(services_json)
              /\ \A k \in DOMAIN services_json :
                    ("category_id" \in DOMAIN services_json[k]
                       /\ services_json[k].category_id \in DOMAIN id_mapping)
                    => updated_services'[k].category_id = id_mapping[services_json[k].category_id]
        /\ (services_json' # services_json \/ categories_json' # categories_json) =>
              /\ pc = "updated"
              /\ Len(updated_services) = Len(services_json)
              /\ services_json' = updated_services
              /\ categories_json' = clean_categories_for_output(synced_categories)
      ]_vars

\* a run that matched one category and created one has saved services.json
\* with the rewritten category ids
C22_Witness ==
    /\ pc = "saved"
    /\ report.matched = 1 /\ report.new = 1
    /\ services_json = updated_services
    /\ services_json # ServiceInputs
    /\ \E k \in DOMAIN services_json :
          /\ ServiceInputs[k].category_id \in DOMAIN id_mapping
          /\ services_json[k].category_id = id_mapping[ServiceInputs[k].category_id]
          /\ services_json[k].category_id # ServiceInputs[k].category_id

\* C23: within a run the local categories have gone through the conflict
\* resolver before sync_categories reads them: the ids it reads are
\* pairwise distinct and the id mapping it returns has exactly one entry
\* per local record.
C23_LocalIdsUniqueBeforeMatch ==
    pc = "synced" =>
        /\ DistinctIds(categories_json)
        /\ Cardinality(DOMAIN id_mapping) = Len(categories_json)

\* C24: the status of a run starts as in_progress, changes once, from
\* in_progress to success, partial or failed, and stays; once it has left
\* in_progress no result, counter or error list of the row changes; every
\* run is eventually closed.
C24_StatusMovesOnce ==
    /\ sync_log.status = "in_progress"
    /\ [][ /\ sync_log'.status # sync_log.status =>
                 /\ sync_log.status = "in_progress"
                 /\ sync_log'.status \in SyncLogStatus \ {"in_progress"}
           /\ sync_log.status # "in_progress" => sync_log' = sync_log
         ]_vars
    /\ <>[](sync_log.status \in SyncLogStatus \ {"in_progress"})

\* a closed run over two entity types, one counted and one failed
C24_Witness ==
    /\ sync_log.status = "partial"
    /\ Cardinality(run_types) = 2
    /\ sync_log.total_errors = 1
    /\ sync_log.total_created + sync_log.total_updated + sync_log.total_archived = 2

\* lower-case letters and digits among the characters used here
LowerLetters == {"a", "b", "c", "m", "t"}

Digits == {"0", "1"}

\* C25: normalize_name returns the lower-cased input without the
\* characters that are no letter, digit or space: the letters and digits
\* are kept in order, every other character of the result is a single
\* space between two of them (none leading, none trailing, no two in a
\* row), and an empty input gives the empty string.
C25_NormalizedShape ==
    norm_pc # "input" =>
        LET out == norm_once
            kept(c) == c \in LowerLetters \cup Digits
        IN /\ \A i \in DOMAIN out : out[i] \in LowerLetters \cup Digits \cup {" "}
           /\ out # <<>> => (out[1] # " " /\ out[Len(out)] # " ")
           /\ \A i \in 1..(Len(out) - 1) : ~(out[i] = " " /\ out[i + 1] = " ")
           /\ SelectSeq(out, kept) = SelectSeq(LowerStr(norm_name), kept)
           /\ norm_name = <<>> => out = <<>>

\* C29: normalize_name is idempotent: normalize_name(normalize_name(s))
\* equals normalize_name(s) for every string s, also when punctuation
\* stands between spaces or at either end.
C29_NormalizeIdempotent ==
    norm_pc = "twice" => norm_twice = norm_once

\* every record of a list has a non-null id and no id occurs twice
FullyAssigned(items) ==
    /\ \A i \in DOMAIN items : HasId(items[i])
    /\ \A i, j \in DOMAIN items : i # j => GetId(items[i]) # GetId(items[j])

\* C26: assign_ids is all-or-nothing: the file is written only once the
\* loop is over and only with a list in which every record has a non-null
\* id and all ids are pairwise distinct; a call that ends with the
\* RuntimeError of the verification writes nothing; no list that is partly
\* assigned is ever in the file.
C26_AllOrNothing ==
    [][ /\ items_file' # items_file =>
              /\ alloc_todo = <<>>
              /\ FullyAssigned(items_file')
              /\ outcome' # "RuntimeError"
        /\ outcome' = "RuntimeError" => items_file' = items_file
      ]_vars

\* ids 1, 1 and none: written after both passes of the loop, as 1, 2, 3
C26_Witness ==
    /\ runs = 1
    /\ Len(orig_file) = 3
    /\ GetId(orig_file[1]) = Some(1) /\ GetId(orig_file[2]) = Some(1) /\ ~HasId(orig_file[3])
    /\ start_id = 1
    /\ Len(alloc_calls) = 2
    /\ outcome = "returned"
    /\ items_file # orig_file
    /\ \A i \in 1..3 : GetId(items_file[i]) = Some(i)

\* the records of the last call whose non-null id was replaced
Replaced == {i \in DOMAIN prev_file : HasId(prev_file[i])
                                       /\ GetId(items_file[i]) # GetId(prev_file[i])}

\* C27: assign_ids emits exactly one audit entry (old id, new id, display
\* name) for every record whose non-null id was replaced and no other
\* entry (none for a record that keeps its id, none for one that had no
\* id), and the summary's reassigned_conflicts is the number of entries;
\* ids 1, 1 named "Skin Care", "Body Care" give the entry (1, 2, "Body Care").
C27_AuditPerReplacedId ==
    runs >= 1 =>
        /\ Len(audit) = Cardinality(Replaced)
        /\ \A i \in Replaced :
              Cardinality({k \in DOMAIN audit :
                              audit[k] = [old_id |-> prev_file[i].id[1],
                                          new_id |-> items_file[i].id[1],
                                          name |-> DisplayName(prev_file[i])]}) = 1
        /\ summary.reassigned_conflicts = Len(audit)
        /\ summary.assigned_new = Len(ItemsWithoutId(prev_file))
        /\ (/\ start_id = 1
            /\ prev_file = << [id |-> Some(1), name_i18n |-> [en |-> "Skin Care"]],
                              [id |-> Some(1), name |-> "Body Care"] >>)
           => audit = << [old_id |-> 1, new_id |-> 2, name |-> "Body Care"] >>

\* ids 1, 1 and none: one entry for the second record, none for the first
\* (kept) and none for the third (had no id)
C27_Witness ==
    /\ runs = 1
    /\ start_id = 1
    /\ Len(prev_file) = 3
    /\ prev_file[1] = [id |-> Some(1), name_i18n |-> [en |-> "Skin Care"]]
    /\ prev_file[2] = [id |-> Some(1), name |-> "Body Care"]
    /\ ~HasId(prev_file[3])
    /\ audit = << [old_id |-> 1, new_id |-> 2, name |-> "Body Care"] >>
    /\ summary.reassigned_conflicts = 1
    /\ summary.assigned_new = 1

\* C28: update_services_category_ids substitutes all references at once: a
\* category_id that is a key of the mapping becomes exactly the mapped
\* value, also when that value is itself a key of the mapping; the result
\* has the services in the same number and order with every other key as
\* it was, and the list passed in is left as it was loaded.
C28_SimultaneousSubstitution ==
    pc = "updated" =>
        /\ services_json = ServiceInputs
        /\ Len(updated_services) = Len(services_json)
        /\ \A i \in DOMAIN services_json :
              LET old == services_json[i]
                  new == updated_services[i]
              IN /\ DOMAIN new = DOMAIN old
                 /\ \A k \in DOMAIN old \ {"category_id"} : new[k] = old[k]
                 /\ "category_id" \in DOMAIN old =>
                       new.category_id = IF old.category_id \in DOMAIN id_mapping
                                         THEN id_mapping[old.category_id]
                                         ELSE old.category_id

\* the mapping sends 2 to 1 and 1 to 3: the reference 2 becomes 1, not 3
C28_Witness ==
    /\ pc = "updated"
    /\ DOMAIN id_mapping = {1, 2}
    /\ id_mapping[2] = 1 /\ id_mapping[1] = 3
    /\ services_json = ServiceInputs
    /\ updated_services[2].category_id = 1
    /\ updated_services[1].category_id = 3
    /\ updated_services[3].category_id = 3
    /\ "category_id" \notin DOMAIN updated_services[4]

\* C30: in the categories and services written by the data preparation,
\* every service's category_id is the id of a written category, also for a
\* service whose category name is empty or absent.
C30_CategoryIdsResolve ==
    prep_pc = "done" =>
        \A i \in DOMAIN prep_services :
            \E c \in DOMAIN prep_categories :
                prep_categories[c].id = prep_services[i].category_id

=============================================================================
